---- MODULE Spec2Model ----
(***************************************************************************)
(* Model of the retrieval layer of the LangChain RAG backend               *)
(* (backend/retriever.py) and of the code around it: the HTTP edge         *)
(* (backend/router.py), the pipeline entry point (backend/rag_pipeline.py) *)
(* and the ingestion pipeline (backend/ingestor.py).                       *)
(*                                                                         *)
(* Numbers.  Python floats are modelled as fixed-point integers in units   *)
(* of 10^-6 (ONE = 1.0).  Every raw distance the model draws is an even    *)
(* number of units, so raw / 2.0 is exact.  round(x, 4) rounds to a        *)
(* multiple of 100 units.                                                  *)
(*                                                                         *)
(* Strings.  A Python str is a sequence of one-character strings, so that  *)
(* strip, replace and split are computed, not assumed.                     *)
(*                                                                         *)
(* Optional values.  A Python "X | None" is a set with at most one         *)
(* element: {} is None, {x} is x.                                          *)
(*                                                                         *)
(* External collaborators (FAISS, the embedding model, the LLM) work as     *)
(* their interface says or fail: load_local returns what is on disk or     *)
(* raises (as does get_embeddings()), a search returns the k best results  *)
(* of the ranking the index holds.                                         *)
(***************************************************************************)
EXTENDS Integers, Sequences, FiniteSets, TLC

VARIABLES
    \* ---- one call of retrieve() (retriever.py) ----
    query,            \* the query string
    ranking,          \* what the index holds for this query: <<[doc, raw_score]>>, best first
    retrieval_k,      \* settings.retrieval_k
    threshold,        \* settings.retrieval_score_threshold
    rpc,              \* "ready" | "returned" | "raised"
    raw,              \* the list similarity_search_with_score returned
    sims,             \* the value of `similarity` in each iteration of the loop
    chunks,           \* the list retrieve returned
    rerror,           \* the exception retrieve raised, "" if none
    searches,         \* number of searches issued against the index
    \* ---- one call of deduplicate_sources() / build_context() ----
    dchunks,          \* the input list
    dpc,              \* "ready" | "done"
    citations,        \* the list deduplicate_sources returned
    dcalls,           \* number of calls of deduplicate_sources on the input list
    cpc,              \* build_context on the input list: "ready" | "done"
    context,          \* the string build_context returned
    \* ---- the process-wide vector store cache and its callers ----
    storeExists,      \* settings.store_path.exists()
    diskVersion,      \* which index is persisted on disk (0 = the first one)
    cache,            \* the lru_cache of _load_vector_store: {} or {handle}
    loads,            \* number of loads of the index _load_vector_store has completed
    loadsSinceClear,  \* ... since the last cache_clear (or since start)
    clears,           \* number of cache_clear calls so far
    reindexed,        \* version of the last completed re-indexing (persist + invalidate)
    tpc,              \* per caller: where it is ("idle", "lookup", "hit", "load", ...)
    tkind,            \* per caller: "retrieve" | "health" | "ingest" | ""
    ingests,          \* number of POST /ingest calls started
    tvs,              \* per caller: the handle it holds, {} if none
    tstart,           \* per caller: value of reindexed when its call started
    terror,           \* per caller: the exception its call raised, "" if none
    \* ---- the HTTP edge ----
    httpStatus,       \* status of the last /ask response, 0 if none yet
    lastAsk,          \* the last call of rag_pipeline.ask: its question and what it did
    qaChain,          \* rag_pipeline._qa_chain: {} or {version of the index it wraps}
    history,          \* the entries the /ask handler has handed to log_entry
    \* ---- the history log (history.py) ----
    hfile,            \* history.jsonl: {} if there is no file, else {its text}
    hlogged,          \* the entries written since the most recent clear, oldest first
    hlast             \* the last call of history.py and what it returned

vars == <<query, ranking, retrieval_k, threshold, rpc, raw, sims, chunks, rerror, searches,
          dchunks, dpc, citations, dcalls, cpc, context,
          storeExists, diskVersion, cache, loads, loadsSinceClear, clears, reindexed,
          tpc, tkind, ingests, tvs, tstart, terror,
          httpStatus, lastAsk, qaChain, history,
          hfile, hlogged, hlast>>

retrieveVars == <<query, ranking, retrieval_k, threshold, rpc, raw, sims, chunks, rerror, searches>>
dedupVars    == <<dchunks, dpc, citations, dcalls, cpc, context>>
cacheVars    == <<storeExists, diskVersion, cache, loads, loadsSinceClear, clears, reindexed,
                  tpc, tkind, ingests, tvs, tstart, terror>>
httpVars     == <<httpStatus, lastAsk, qaChain, history>>
histVars     == <<hfile, hlogged, hlast>>

-----------------------------------------------------------------------------
(* Bounds of the model *)

MaxResults == 3     \* longest ranking the index holds for a query
MaxK       == 3     \* largest settings.retrieval_k drawn
MaxChunks  == 4     \* longest input list of deduplicate_sources
MaxLoads   == 3     \* completed loads of the index in one behaviour
MaxIngests == 2     \* calls of POST /ingest in one behaviour
MaxHistory == 2     \* entries in the history log
MaxDedupCalls == 2  \* calls of deduplicate_sources on one input list
MaxLogged  == 3     \* entries in the history file between two clears

\* The callers of the retrieval layer that may run at the same time
Callers == {"c1", "c2"}

-----------------------------------------------------------------------------
(* Numbers *)

ONE == 1000000

Max(a, b) == IF a >= b THEN a ELSE b
Min(a, b) == IF a <= b THEN a ELSE b

\* round(x, 4): to the nearest multiple of 10^-4, halves to the even neighbour
Round4(x) ==
    LET q == x \div 100
        r == x % 100
    IN  IF r < 50 THEN q * 100
        ELSE IF r > 50 THEN (q + 1) * 100
        ELSE IF q % 2 = 0 THEN q * 100 ELSE (q + 1) * 100

-----------------------------------------------------------------------------
(* Strings *)

Str_unknown == <<"u", "n", "k", "n", "o", "w", "n">>
Whitespace  == {" ", "\t", "\n"}

\* Query and question strings drawn: empty, whitespace only, a word
Queries == { <<>>, <<" ", "\t">>, <<"r", "a", "g">> }

\* str.strip()
RECURSIVE LStrip(_)
LStrip(s) == IF s # <<>> /\ Head(s) \in Whitespace THEN LStrip(Tail(s)) ELSE s
RECURSIVE RStrip(_)
RStrip(s) == IF s # <<>> /\ s[Len(s)] \in Whitespace
             THEN RStrip(SubSeq(s, 1, Len(s) - 1)) ELSE s
Strip(s) == RStrip(LStrip(s))

\* source_path.replace("\\", "/").split("/")[-1]
ReplaceBackslash(s) == [i \in 1..Len(s) |-> IF s[i] = "\\" THEN "/" ELSE s[i]]
LastSegment(s) ==
    LET seps == {i \in 1..Len(s) : s[i] = "/"}
    IN  IF seps = {} THEN s
        ELSE LET last == CHOOSE i \in seps : \A j \in seps : j <= i
             IN  SubSeq(s, last + 1, Len(s))

\* Mutant of FileName: backslashes are not taken for separators.
FileName_NoBackslash(source_path) == LastSegment(source_path)

FileName(source_path) == LastSegment(ReplaceBackslash(source_path))

\* A dict is a function from its keys; <<>> is the empty dict.
\* `md or {}` for a metadata that may be None (line 102)
OrEmptyDict(md) == IF md = {} THEN <<>> ELSE CHOOSE m \in md : TRUE

\* dict.get(key, default) and dict.get(key) on a metadata mapping
DictGet(meta, key, default) == IF key \in DOMAIN meta THEN meta[key] ELSE default
DictGetOpt(meta, key) == IF key \in DOMAIN meta THEN {meta[key]} ELSE {}

-----------------------------------------------------------------------------
(* retriever.py : the vector store handle *)

\* A handle is the object one FAISS.load_local call returned: id numbers the
\* load that made it, version is the index that was on disk when it was read.
Handle(n, v) == [id |-> n, version |-> v]

\* get_vector_store() run without interruption: the lru_cache returns the
\* cached handle; on a miss _load_vector_store checks the path, loads, and
\* the result is cached.  An exception is never cached.
\* loadOK: whether get_embeddings() and FAISS.load_local succeed.
GetVectorStore(c, exists, version, n, loadOK) ==
    IF c # {} THEN [error |-> "", vs |-> c, cache |-> c, loads |-> n]
    ELSE IF ~exists
         THEN [error |-> "FileNotFoundError", vs |-> {}, cache |-> {}, loads |-> n]
         ELSE IF ~loadOK
              THEN [error |-> "LoadError", vs |-> {}, cache |-> {}, loads |-> n]
              ELSE LET h == {Handle(n + 1, version)}
                   IN  [error |-> "", vs |-> h, cache |-> h, loads |-> n + 1]

-----------------------------------------------------------------------------
(* The vector store handle under concurrent callers.                        *)
(* functools.lru_cache looks the key up, and on a miss calls the wrapped    *)
(* function without holding any lock; when the function returns, the        *)
(* result is put in the cache unless the key has been added meanwhile, and  *)
(* the caller gets the result of its own call.  load_local reads files and  *)
(* releases the interpreter lock, so callers interleave between the lookup, *)
(* the load and the store.                                                  *)

Set(f, t, v) == [f EXCEPT ![t] = v]

\* retrieve(query), line 83: the call starts
StartRetrieve(t) ==
    /\ tpc[t] = "idle"
    /\ tpc' = Set(tpc, t, "lookup")
    /\ tkind' = Set(tkind, t, "retrieve")
    /\ tstart' = Set(tstart, t, reindexed)
    /\ UNCHANGED <<storeExists, diskVersion, cache, loads, loadsSinceClear, clears,
                   reindexed, ingests, tvs, terror>>
    /\ UNCHANGED <<retrieveVars, dedupVars, httpVars, histVars>>

\* router.py health_check, lines 121-127: the handle is asked for only when
\* the store path exists
StartHealth(t) ==
    /\ tpc[t] = "idle"
    /\ tpc' = Set(tpc, t, IF storeExists THEN "lookup" ELSE "done")
    /\ tkind' = Set(tkind, t, "health")
    /\ tstart' = Set(tstart, t, reindexed)
    /\ UNCHANGED <<storeExists, diskVersion, cache, loads, loadsSinceClear, clears,
                   reindexed, ingests, tvs, terror>>
    /\ UNCHANGED <<retrieveVars, dedupVars, httpVars, histVars>>

\* lru_cache wrapper of _load_vector_store: the lookup.  On a hit the
\* caller goes on with the cached handle ("hit"), on a miss the body runs.
Lookup(t) ==
    /\ tpc[t] = "lookup"
    /\ IF cache # {}
       THEN /\ tvs' = Set(tvs, t, cache)
            /\ tpc' = Set(tpc, t, "hit")
       ELSE /\ tpc' = Set(tpc, t, "load")
            /\ UNCHANGED tvs
    /\ UNCHANGED <<storeExists, diskVersion, cache, loads, loadsSinceClear, clears,
                   reindexed, ingests, tkind, tstart, terror>>
    /\ UNCHANGED <<retrieveVars, dedupVars, httpVars, histVars>>

\* Mutant of Load: the lru_cache keeps the failure of the call and hands it
\* to the later callers.
Load_CachesFailure(t) ==
    /\ tpc[t] = "load"
    /\ IF ~storeExists
       THEN /\ terror' = Set(terror, t, "FileNotFoundError")
            /\ tpc' = Set(tpc, t, "done")
            /\ cache' = {Handle(0, diskVersion)}
            /\ UNCHANGED <<tvs, loads, loadsSinceClear>>
       ELSE /\ \E loadOK \in BOOLEAN :
                 IF loadOK
                 THEN /\ loads < MaxLoads
                      /\ tvs' = Set(tvs, t, {Handle(loads + 1, diskVersion)})
                      /\ loads' = loads + 1
                      /\ loadsSinceClear' = loadsSinceClear + 1
                      /\ tpc' = Set(tpc, t, "store")
                      /\ UNCHANGED terror
                 ELSE /\ terror' = Set(terror, t, "LoadError")
                      /\ tpc' = Set(tpc, t, "done")
                      /\ UNCHANGED <<tvs, loads, loadsSinceClear>>
            /\ UNCHANGED cache
    /\ UNCHANGED <<storeExists, diskVersion, clears, reindexed, ingests,
                   tkind, tstart>>
    /\ UNCHANGED <<retrieveVars, dedupVars, httpVars, histVars>>

\* _load_vector_store, lines 45-58: the body, run on a miss
Load(t) ==
    /\ tpc[t] = "load"
    /\ IF ~storeExists
       THEN /\ terror' = Set(terror, t, "FileNotFoundError")
            /\ tpc' = Set(tpc, t, "done")
            /\ UNCHANGED <<tvs, loads, loadsSinceClear>>
       ELSE \E loadOK \in BOOLEAN :
              IF loadOK
              THEN /\ loads < MaxLoads
                   /\ tvs' = Set(tvs, t, {Handle(loads + 1, diskVersion)})
                   /\ loads' = loads + 1
                   /\ loadsSinceClear' = loadsSinceClear + 1
                   /\ tpc' = Set(tpc, t, "store")
                   /\ UNCHANGED terror
              ELSE /\ terror' = Set(terror, t, "LoadError")
                   /\ tpc' = Set(tpc, t, "done")
                   /\ UNCHANGED <<tvs, loads, loadsSinceClear>>
    /\ UNCHANGED <<storeExists, diskVersion, cache, clears, reindexed, ingests,
                   tkind, tstart>>
    /\ UNCHANGED <<retrieveVars, dedupVars, httpVars, histVars>>

\* Mutant of Store: the result of the load is not cached.
Store_Forgets(t) ==
    /\ tpc[t] = "store"
    /\ tpc' = Set(tpc, t, "use")
    /\ UNCHANGED <<storeExists, diskVersion, cache, loads, loadsSinceClear, clears,
                   reindexed, ingests, tkind, tvs, tstart, terror>>
    /\ UNCHANGED <<retrieveVars, dedupVars, httpVars, histVars>>

\* lru_cache wrapper: the result is cached unless the key is there already
Store(t) ==
    /\ tpc[t] = "store"
    /\ cache' = IF cache = {} THEN tvs[t] ELSE cache
    /\ tpc' = Set(tpc, t, "use")
    /\ UNCHANGED <<storeExists, diskVersion, loads, loadsSinceClear, clears, reindexed,
                   ingests, tkind, tvs, tstart, terror>>
    /\ UNCHANGED <<retrieveVars, dedupVars, httpVars, histVars>>

\* retrieve, lines 84-120 (the search on the handle), or health_check,
\* line 128 (vs.index.ntotal)
Use(t) ==
    /\ tpc[t] \in {"use", "hit"}
    /\ tpc' = Set(tpc, t, "done")
    /\ UNCHANGED <<storeExists, diskVersion, cache, loads, loadsSinceClear, clears,
                   reindexed, ingests, tkind, tvs, tstart, terror>>
    /\ UNCHANGED <<retrieveVars, dedupVars, httpVars, histVars>>

\* the call is over
Finish(t) ==
    /\ tpc[t] = "done"
    /\ tpc' = Set(tpc, t, "idle")
    /\ tkind' = Set(tkind, t, "")
    /\ tvs' = Set(tvs, t, {})
    /\ terror' = Set(terror, t, "")
    /\ tstart' = Set(tstart, t, 0)
    /\ UNCHANGED <<storeExists, diskVersion, cache, loads, loadsSinceClear, clears,
                   reindexed, ingests>>
    /\ UNCHANGED <<retrieveVars, dedupVars, httpVars, histVars>>

\* router.py ingest_documents, line 161 and ingestor.py ingest, lines 136-154.
\* force_rebuild = FALSE with an index on disk skips the rebuild; otherwise
\* the documents are loaded, split and embedded (which may fail), and the
\* new index is persisted.
IngestCall(t) ==
    /\ tpc[t] = "idle"
    /\ ingests < MaxIngests
    /\ ingests' = ingests + 1
    /\ tkind' = Set(tkind, t, "ingest")
    /\ \E force_rebuild \in BOOLEAN, built \in BOOLEAN :
          IF ~force_rebuild /\ storeExists
          THEN /\ tpc' = Set(tpc, t, "invalidate")
               /\ UNCHANGED <<storeExists, diskVersion, tvs, terror>>
          ELSE IF ~built
               THEN /\ tpc' = Set(tpc, t, "done")
                    /\ terror' = Set(terror, t, "IngestError")
                    /\ UNCHANGED <<storeExists, diskVersion, tvs>>
               ELSE /\ storeExists' = TRUE
                    /\ diskVersion' = diskVersion + 1
                    /\ tvs' = Set(tvs, t, {Handle(0, diskVersion + 1)})
                    /\ tpc' = Set(tpc, t, "invalidate")
                    /\ UNCHANGED terror
    /\ UNCHANGED <<cache, loads, loadsSinceClear, clears, reindexed, tstart>>
    /\ UNCHANGED <<retrieveVars, dedupVars, httpVars, histVars>>

\* router.py line 165, retriever.py invalidate_vector_store_cache, line 68
Invalidate(t) ==
    /\ tpc[t] = "invalidate"
    /\ cache' = {}
    /\ clears' = clears + 1
    /\ loadsSinceClear' = 0
    /\ reindexed' = IF tvs[t] = {} THEN reindexed
                    ELSE Max(reindexed, (CHOOSE h \in tvs[t] : TRUE).version)
    /\ tpc' = Set(tpc, t, "done")
    /\ UNCHANGED <<storeExists, diskVersion, loads, ingests, tkind, tvs, tstart,
                   terror>>
    /\ UNCHANGED <<retrieveVars, dedupVars, httpVars, histVars>>

\* ingestor.py lines 158-166: `python ingestor.py`, a process of its own.
\* It rebuilds and persists the index (ingest(force_rebuild=True)); the cache
\* of the serving process is not touched.  A run that fails changes nothing.
CliIngest ==
    /\ diskVersion < MaxIngests
    /\ storeExists' = TRUE
    /\ diskVersion' = diskVersion + 1
    /\ UNCHANGED <<cache, loads, loadsSinceClear, clears, reindexed,
                   tpc, tkind, ingests, tvs, tstart, terror>>
    /\ UNCHANGED <<retrieveVars, dedupVars, httpVars, histVars>>

-----------------------------------------------------------------------------
(* retriever.py : retrieve *)

\* FAISS.similarity_search_with_score(query, k): the k best of the ranking
SimilaritySearchWithScore(rk, k) == SubSeq(rk, 1, Min(k, Len(rk)))

\* Mutant of Similarity: the lower clamp is missing.
Similarity_NoClamp(raw_score) == ONE - raw_score \div 2

\* line 92: similarity = float(max(0.0, 1.0 - raw_score / 2.0))
Similarity(raw_score) == Max(0, ONE - raw_score \div 2)

\* Mutant of Filtered: the comparison is inverted.
Filtered_Inverted(raw_score, thr) == Similarity(raw_score) > thr

\* line 94: the filter
Filtered(raw_score, thr) == Similarity(raw_score) < thr

\* lines 95-99: the arguments of log.debug are evaluated before the call,
\* whatever the log level: doc.metadata.get("source", "?")[:60] raises
\* AttributeError when doc.metadata is None.  "" if nothing is raised.
FilterLogError(doc) == IF doc.metadata = {} THEN "AttributeError" ELSE ""

\* lines 89-100: the first iteration that raises, 0 if none does
LoopFailsAt(rs, thr) ==
    LET F == {i \in DOMAIN rs :
                 Filtered(rs[i].raw_score, thr) /\ FilterLogError(rs[i].doc) # ""}
    IN  IF F = {} THEN 0 ELSE CHOOSE i \in F : \A j \in F : i <= j

\* lines 102-112: the chunk built for a result that is kept
MakeChunk(doc, raw_score) ==
    LET meta == OrEmptyDict(doc.metadata)
        source_path == DictGet(meta, "source", Str_unknown)
    IN  [content          |-> doc.page_content,
         filename         |-> FileName(source_path),
         source_path      |-> source_path,
         similarity_score |-> Round4(Similarity(raw_score)),
         start_index      |-> DictGetOpt(meta, "start_index")]

\* Mutant of RetrieveLoop: a kept chunk is put at the front of the list.
RECURSIVE RetrieveLoop_Prepend(_, _)
RetrieveLoop_Prepend(rs, thr) ==
    IF rs = <<>> THEN <<>>
    ELSE LET r    == Head(rs)
             rest == RetrieveLoop_Prepend(Tail(rs), thr)
         IN  IF Filtered(r.raw_score, thr) THEN rest
             ELSE rest \o <<MakeChunk(r.doc, r.raw_score)>>

\* lines 88-112: the loop over the raw results
RECURSIVE RetrieveLoop(_, _)
RetrieveLoop(rs, thr) ==
    IF rs = <<>> THEN <<>>
    ELSE LET r    == Head(rs)
             rest == RetrieveLoop(Tail(rs), thr)
         IN  IF Filtered(r.raw_score, thr) THEN rest
             ELSE <<MakeChunk(r.doc, r.raw_score)>> \o rest

\* One call of retrieve(query), run without interruption.
Retrieve ==
    /\ rpc = "ready"
    /\ \E loadOK \in BOOLEAN :
       LET g == GetVectorStore(cache, storeExists, diskVersion, loads, loadOK)
       IN  /\ cache' = g.cache
           /\ loads' = g.loads
           /\ loadsSinceClear' = loadsSinceClear + (g.loads - loads)
           /\ IF g.error # ""
              THEN /\ rpc' = "raised"
                   /\ rerror' = g.error
                   /\ UNCHANGED <<raw, sims, chunks, searches>>
              ELSE LET res == SimilaritySearchWithScore(ranking, retrieval_k)
                       bad == LoopFailsAt(res, threshold)
                   IN  /\ raw' = res
                       /\ searches' = searches + 1
                       /\ IF bad # 0
                          THEN /\ rpc' = "raised"
                               /\ rerror' = FilterLogError(res[bad].doc)
                               /\ sims' = [i \in 1..bad |-> Similarity(res[i].raw_score)]
                               /\ UNCHANGED chunks
                          ELSE /\ rpc' = "returned"
                               /\ sims' = [i \in 1..Len(res) |->
                                              Similarity(res[i].raw_score)]
                               /\ chunks' = RetrieveLoop(res, threshold)
                               /\ UNCHANGED rerror
    /\ UNCHANGED <<query, ranking, retrieval_k, threshold>>
    /\ UNCHANGED <<storeExists, diskVersion, clears, reindexed,
                   tpc, tkind, ingests, tvs, tstart, terror>>
    /\ UNCHANGED <<dedupVars, httpVars, histVars>>

-----------------------------------------------------------------------------
(* retriever.py : deduplicate_sources *)

SnippetMax == 350
Ellipsis == <<"...">>     \* the one character U+2026

\* Mutant of Snippet: the slice is not stripped.
Snippet_NoStrip(content) ==
    SubSeq(content, 1, Min(SnippetMax, Len(content)))
        \o (IF Len(content) > SnippetMax THEN Ellipsis ELSE <<>>)

\* line 150: c.content[:350].strip() + ("..." if len(c.content) > 350 else "")
Snippet(content) ==
    Strip(SubSeq(content, 1, Min(SnippetMax, Len(content))))
        \o (IF Len(content) > SnippetMax THEN Ellipsis ELSE <<>>)

\* `seen` is a dict keyed by filename; a dict keeps its keys in insertion
\* order and an assignment to an existing key keeps the key's place.  It is
\* modelled as the sequence of its values, one chunk per filename.
SeenIndex(seen, filename) ==
    IF \E i \in DOMAIN seen : seen[i].filename = filename
    THEN {CHOOSE i \in DOMAIN seen : seen[i].filename = filename}
    ELSE {}

\* Mutant of SeenPut: a later chunk of equal score replaces the representative.
SeenPut_ReplaceOnTie(seen, chunk) ==
    LET at == SeenIndex(seen, chunk.filename)
    IN  IF at = {} THEN Append(seen, chunk)
        ELSE LET i == CHOOSE i \in at : TRUE
             IN  IF chunk.similarity_score >= seen[i].similarity_score
                 THEN [seen EXCEPT ![i] = chunk]
                 ELSE seen

\* Mutant of SeenPut: the first chunk of a filename is kept whatever its score.
SeenPut_KeepFirst(seen, chunk) ==
    LET at == SeenIndex(seen, chunk.filename)
    IN  IF at = {} THEN Append(seen, chunk) ELSE seen

\* Mutant of SeenPut: a replaced filename moves to the end of the dict.
SeenPut_MoveToEnd(seen, chunk) ==
    LET at == SeenIndex(seen, chunk.filename)
    IN  IF at = {} THEN Append(seen, chunk)
        ELSE LET i == CHOOSE i \in at : TRUE
             IN  IF chunk.similarity_score > seen[i].similarity_score
                 THEN Append(SelectSeq(seen, LAMBDA c : c.filename # chunk.filename),
                             chunk)
                 ELSE seen

\* lines 144-145: one iteration of the loop
SeenPut(seen, chunk) ==
    LET at == SeenIndex(seen, chunk.filename)
    IN  IF at = {} THEN Append(seen, chunk)
        ELSE LET i == CHOOSE i \in at : TRUE
             IN  IF chunk.similarity_score > seen[i].similarity_score
                 THEN [seen EXCEPT ![i] = chunk]
                 ELSE seen

\* lines 142-145: the loop
RECURSIVE SeenAfter(_, _)
SeenAfter(cs, n) == IF n = 0 THEN <<>> ELSE SeenPut(SeenAfter(cs, n - 1), cs[n])

\* lines 147-155: one citation per value of `seen`
Citation(c) ==
    [filename         |-> c.filename,
     snippet          |-> Snippet(c.content),
     similarity_score |-> c.similarity_score,
     start_index      |-> c.start_index]

DeduplicateSources(cs) ==
    LET seen == SeenAfter(cs, Len(cs))
    IN  [i \in 1..Len(seen) |-> Citation(seen[i])]

\* Mutant of Dedup: the call reverses its argument in place.
Dedup_ReversesInput ==
    /\ dcalls < MaxDedupCalls
    /\ dcalls' = dcalls + 1
    /\ dpc' = "done"
    /\ citations' = DeduplicateSources(dchunks)
    /\ dchunks' = [i \in 1..Len(dchunks) |-> dchunks[Len(dchunks) + 1 - i]]
    /\ UNCHANGED <<cpc, context>>
    /\ UNCHANGED <<retrieveVars, cacheVars, httpVars, histVars>>

\* One call of deduplicate_sources(chunks).  The function reads its argument
\* and builds new dicts; `seen` is local to the call.
Dedup ==
    /\ dcalls < MaxDedupCalls
    /\ dcalls' = dcalls + 1
    /\ dpc' = "done"
    /\ citations' = DeduplicateSources(dchunks)
    /\ UNCHANGED <<dchunks, cpc, context>>
    /\ UNCHANGED <<retrieveVars, cacheVars, httpVars, histVars>>

-----------------------------------------------------------------------------
(* retriever.py : build_context *)

\* line 129: "No relevant context found in the knowledge base."
NoContext ==
    <<"N", "o", " ", "r", "e", "l", "e", "v", "a", "n", "t", " ",
      "c", "o", "n", "t", "e", "x", "t", " ", "f", "o", "u", "n", "d", " ",
      "i", "n", " ", "t", "h", "e", " ",
      "k", "n", "o", "w", "l", "e", "d", "g", "e", " ", "b", "a", "s", "e", ".">>

\* line 131: f"[Source: {c.filename}]\n{c.content}"
SourcePrefix == <<"[", "S", "o", "u", "r", "c", "e", ":", " ">>
SourceSuffix == <<"]", "\n">>
Block(c) == SourcePrefix \o c.filename \o SourceSuffix \o c.content

\* line 134: "\n\n---\n\n"
Separator == <<"\n", "\n", "-", "-", "-", "\n", "\n">>

\* str.join
RECURSIVE Join(_, _)
Join(sep, parts) ==
    IF parts = <<>> THEN <<>>
    ELSE IF Len(parts) = 1 THEN parts[1]
    ELSE parts[1] \o sep \o Join(sep, Tail(parts))

\* Mutant of BuildContext: the chunks of one filename are merged into the
\* block of its representative.
BuildContext_Merged(cs) ==
    IF cs = <<>> THEN NoContext
    ELSE LET seen == SeenAfter(cs, Len(cs))
         IN  Join(Separator, [i \in 1..Len(seen) |-> Block(seen[i])])

\* Mutant of BuildContext: the empty list is joined like any other.
BuildContext_NoSentinel(cs) ==
    Join(Separator, [i \in 1..Len(cs) |-> Block(cs[i])])

\* lines 128-134
BuildContext(cs) ==
    IF cs = <<>> THEN NoContext
    ELSE Join(Separator, [i \in 1..Len(cs) |-> Block(cs[i])])

\* One call of build_context(chunks)
BuildCtx ==
    /\ cpc = "ready"
    /\ cpc' = "done"
    /\ context' = BuildContext(dchunks)
    /\ UNCHANGED <<dchunks, dpc, citations, dcalls>>
    /\ UNCHANGED <<retrieveVars, cacheVars, httpVars, histVars>>

-----------------------------------------------------------------------------
(* rag_pipeline.py : ask *)

\* What the collaborators of ask do in one call: FAISS.load_local with
\* get_embeddings(), get_llm(), chain.invoke
Outcomes == {"ok", "load fails", "llm init fails", "invoke fails"}

\* line 148: def ask(question: str)
AskParameters == {"question"}

\* Mutant of AskBody: the check of the question is missing.
AskBody_NoCheck(question, exists, chain, version, outcome) ==
    IF chain = {} /\ ~exists
    THEN [error |-> "FileNotFoundError", loaded |-> FALSE, searched |-> FALSE, chain |-> chain]
    ELSE IF chain = {} /\ outcome = "load fails"
    THEN [error |-> "LoadError", loaded |-> FALSE, searched |-> FALSE, chain |-> chain]
    ELSE IF chain = {} /\ outcome = "llm init fails"
    THEN [error |-> "LLMError", loaded |-> TRUE, searched |-> FALSE, chain |-> chain]
    ELSE [error    |-> IF outcome = "invoke fails" THEN "LLMError" ELSE "",
          loaded   |-> chain = {},
          searched |-> TRUE,
          chain    |-> IF chain = {} THEN {version} ELSE chain]

\* lines 158-169: the body of ask.  A blank question is rejected first; then
\* get_qa_chain (lines 139-145) loads the index and builds the chain unless
\* the chain is there already, and the chain is invoked (search + LLM call).
\* outcome: what the collaborators do in this call.
AskBody(question, exists, chain, version, outcome) ==
    IF Strip(question) = <<>>
    THEN [error |-> "ValueError", loaded |-> FALSE, searched |-> FALSE, chain |-> chain]
    ELSE IF chain = {} /\ ~exists
    THEN [error |-> "FileNotFoundError", loaded |-> FALSE, searched |-> FALSE, chain |-> chain]
    ELSE IF chain = {} /\ outcome = "load fails"
    THEN [error |-> "LoadError", loaded |-> FALSE, searched |-> FALSE, chain |-> chain]
    ELSE IF chain = {} /\ outcome = "llm init fails"
    THEN [error |-> "LLMError", loaded |-> TRUE, searched |-> FALSE, chain |-> chain]
    ELSE [error    |-> IF outcome = "invoke fails" THEN "LLMError" ELSE "",
          loaded   |-> chain = {},
          searched |-> TRUE,
          chain    |-> IF chain = {} THEN {version} ELSE chain]

\* A call of ask with the given keyword arguments: an argument the function
\* does not declare raises TypeError before the body runs.
AskCall(keywords, question, exists, chain, version, outcome) ==
    IF ~(keywords \subseteq AskParameters)
    THEN [error |-> "TypeError", loaded |-> FALSE, searched |-> FALSE, chain |-> chain]
    ELSE AskBody(question, exists, chain, version, outcome)

\* lines 165-169: the keys of the dict ask returns
AskResultKeys == {"answer", "sources"}

-----------------------------------------------------------------------------
(* router.py : POST /ask *)

\* lines 62-65: the keyword arguments ask_question passes to rag.ask
RouterAskKeywords == {"question", "conversation_history"}

\* lines 90-92: the keys ask_question reads from the result
RouterResultKeys == {"answer", "sources", "chunks_retrieved"}

\* lines 66-84: the status of the HTTPException raised for an exception of rag.ask
StatusOfError(error) ==
    IF error = "FileNotFoundError" THEN 503
    ELSE IF error = "ValueError" THEN 400
    ELSE 500

\* lines 68 and 80: which failures are written to the history log
LoggedError(error) == error # "" /\ error # "ValueError"

\* history.py log_entry, lines 39-49
LogEntry(h, question, error) == Append(h, [question |-> question, error |-> error])

\* schemas.py QuestionRequest, lines 20-26: min_length=1
ValidQuestion(question) == Len(question) >= 1

\* lines 56-58: settings.retrieval_k after the override; top_k = 0 stands
\* for a body without top_k
AskOverride(top_k, current_k) == IF top_k # 0 THEN top_k ELSE current_k

\* Mutant of AskFinally: the override is not undone.
AskFinally_NoRestore(top_k, original_k, current_k) == current_k

\* lines 85-88: settings.retrieval_k after the finally clause
AskFinally(top_k, original_k, current_k) ==
    IF top_k # 0 THEN original_k ELSE current_k

\* One POST /ask request.  The handler is a coroutine that never awaits, so
\* the event loop runs it from start to end.
\* A body that fails validation is answered 422 and the handler does not run.
AskQuestion ==
    /\ Len(history) < MaxHistory
    /\ \E question \in Queries, top_k \in {0} \cup (1..MaxK),
          outcome \in Outcomes :
          IF ~ValidQuestion(question)
          THEN /\ httpStatus' = 422
               /\ UNCHANGED <<lastAsk, qaChain, history, retrieval_k>>
          ELSE LET q        == Strip(question)
                   original == retrieval_k
                   k        == AskOverride(top_k, retrieval_k)
                   r        == AskCall(RouterAskKeywords, q, storeExists, qaChain,
                                       diskVersion, outcome)
               IN  /\ lastAsk' = [question |-> q, called |-> TRUE, via |-> "http",
                                  storeMissing |-> ~storeExists, error |-> r.error,
                                  loaded |-> r.loaded, searched |-> r.searched,
                                  top_k |-> top_k, k |-> k]
                   /\ qaChain' = r.chain
                   /\ retrieval_k' = AskFinally(top_k, original, k)
                   /\ IF r.error # ""
                      THEN /\ httpStatus' = StatusOfError(r.error)
                           /\ history' = IF LoggedError(r.error)
                                         THEN LogEntry(history, q, r.error)
                                         ELSE history
                      ELSE IF ~(RouterResultKeys \subseteq AskResultKeys)
                      THEN /\ httpStatus' = 500
                           /\ UNCHANGED history
                      ELSE /\ httpStatus' = 200
                           /\ history' = LogEntry(history, q, "")
    /\ UNCHANGED <<query, ranking, threshold, rpc, raw, sims, chunks, rerror, searches>>
    /\ UNCHANGED <<dedupVars, cacheVars, histVars>>

\* One call of rag_pipeline.ask(question) with the argument it declares.
AskDirect ==
    /\ \E question \in Queries, outcome \in Outcomes :
          LET r == AskCall({"question"}, question, storeExists, qaChain,
                           diskVersion, outcome)
          IN  /\ lastAsk' = [question |-> question, called |-> TRUE, via |-> "direct",
                             storeMissing |-> ~storeExists, error |-> r.error,
                             loaded |-> r.loaded, searched |-> r.searched,
                             top_k |-> 0, k |-> retrieval_k]
              /\ qaChain' = r.chain
    /\ UNCHANGED <<httpStatus, history>>
    /\ UNCHANGED <<retrieveVars, dedupVars, cacheVars, histVars>>

\* One POST /ingest request (router.py lines 158-180), run from start to
\* end: ingest, then invalidate_vector_store_cache.
IngestRequest ==
    /\ ingests < MaxIngests
    /\ ingests' = ingests + 1
    /\ \E force_rebuild \in BOOLEAN, built \in BOOLEAN :
          IF ~force_rebuild /\ storeExists
          THEN /\ cache' = {}
               /\ clears' = clears + 1
               /\ loadsSinceClear' = 0
               /\ UNCHANGED <<storeExists, diskVersion, reindexed>>
          ELSE IF ~built
               THEN UNCHANGED <<storeExists, diskVersion, reindexed, cache, clears,
                                loadsSinceClear>>
               ELSE /\ storeExists' = TRUE
                    /\ diskVersion' = diskVersion + 1
                    /\ reindexed' = diskVersion + 1
                    /\ cache' = {}
                    /\ clears' = clears + 1
                    /\ loadsSinceClear' = 0
    /\ UNCHANGED <<loads, tpc, tkind, tvs, tstart, terror>>
    /\ UNCHANGED <<retrieveVars, dedupVars, httpVars, histVars>>

-----------------------------------------------------------------------------
(* history.py : the interaction log, one JSON document per line              *)
(* An entry is modelled by its two free-text fields, question and answer;    *)
(* the keys and the other fields of the dict are ASCII without line breaks.  *)

\* The one character U+2028 LINE SEPARATOR
LineSep == "<U+2028>"

\* Where str.splitlines breaks a line (of the characters drawn)
LineBreaks == {"\n", LineSep}

\* json.dumps(..., ensure_ascii=False): control characters, the quote and
\* the backslash are escaped, every other character is written as it is
JsonEscape(c) ==
    IF c = "\n" THEN <<"\\", "n">>
    ELSE IF c = "\"" THEN <<"\\", "\"">>
    ELSE IF c = "\\" THEN <<"\\", "\\">>
    ELSE <<c>>

RECURSIVE JsonChars(_)
JsonChars(str) == IF str = <<>> THEN <<>> ELSE JsonEscape(Head(str)) \o JsonChars(Tail(str))

JsonString(str) == <<"\"">> \o JsonChars(str) \o <<"\"">>

\* line 49: json.dumps(entry, ensure_ascii=False)
JsonDumps(entry) ==
    <<"{">> \o JsonString(entry.question) \o <<",">> \o JsonString(entry.answer)
        \o <<"}">>

\* json.loads, a string literal: from position i (after the opening quote) to
\* the closing quote.  ok = FALSE is JSONDecodeError.
RECURSIVE JsonScanString(_, _, _)
JsonScanString(line, i, acc) ==
    IF i > Len(line) THEN [ok |-> FALSE, value |-> acc, next |-> i]
    ELSE IF line[i] = "\"" THEN [ok |-> TRUE, value |-> acc, next |-> i + 1]
    ELSE IF line[i] = "\n" THEN [ok |-> FALSE, value |-> acc, next |-> i]
    ELSE IF line[i] = "\\"
         THEN IF i + 1 > Len(line) THEN [ok |-> FALSE, value |-> acc, next |-> i]
              ELSE IF line[i + 1] = "n"
                   THEN JsonScanString(line, i + 2, Append(acc, "\n"))
              ELSE IF line[i + 1] \in {"\"", "\\"}
                   THEN JsonScanString(line, i + 2, Append(acc, line[i + 1]))
              ELSE [ok |-> FALSE, value |-> acc, next |-> i]
    ELSE JsonScanString(line, i + 1, Append(acc, line[i]))

\* line 60: json.loads(line); {} is JSONDecodeError
JsonLoads(line) ==
    IF Len(line) < 2 \/ line[1] # "{" \/ line[2] # "\"" THEN {}
    ELSE LET q == JsonScanString(line, 3, <<>>)
         IN  IF ~q.ok \/ q.next + 1 > Len(line) THEN {}
             ELSE IF line[q.next] # "," \/ line[q.next + 1] # "\"" THEN {}
             ELSE LET a == JsonScanString(line, q.next + 2, <<>>)
                  IN  IF a.ok /\ a.next = Len(line) /\ line[a.next] = "}"
                      THEN {[question |-> q.value, answer |-> a.value]}
                      ELSE {}

\* str.splitlines(): no empty last line after a final line break
RECURSIVE SplitLinesFrom(_, _, _, _)
SplitLinesFrom(text, i, cur, acc) ==
    IF i > Len(text) THEN (IF cur = <<>> THEN acc ELSE Append(acc, cur))
    ELSE IF text[i] \in LineBreaks
         THEN SplitLinesFrom(text, i + 1, <<>>, Append(acc, cur))
         ELSE SplitLinesFrom(text, i + 1, Append(cur, text[i]), acc)

SplitLines(text) == SplitLinesFrom(text, 1, <<>>, <<>>)

\* lines 60 and 72: `for line in lines if line.strip()`
NonBlankLines(text) == SelectSeq(SplitLines(text), LAMBDA l : Strip(l) # <<>>)

\* line 61: entries[-n:]
LastN(entries, n) ==
    IF n = 0 THEN entries
    ELSE SubSeq(entries, Max(1, Len(entries) - n + 1), Len(entries))

\* The text of the file, "" when there is none
FileText(file) == IF file = {} THEN <<>> ELSE CHOOSE t \in file : TRUE

\* lines 54-64: get_recent(n).  error is the exception that is caught and
\* logged as a warning; the function then returns [].
GetRecent(file, n, readOK) ==
    IF file = {} THEN [error |-> "", entries |-> <<>>]
    ELSE IF ~readOK THEN [error |-> "OSError", entries |-> <<>>]
    ELSE LET lines == NonBlankLines(FileText(file))
         IN  IF \E i \in DOMAIN lines : JsonLoads(lines[i]) = {}
             THEN [error |-> "JSONDecodeError", entries |-> <<>>]
             ELSE [error   |-> "",
                   entries |-> LastN([i \in DOMAIN lines |->
                                         CHOOSE e \in JsonLoads(lines[i]) : TRUE], n)]

\* line 72: count = sum(1 for line in lines if line.strip())
ClearCount(file) == Len(NonBlankLines(FileText(file)))

NoHistCall == [op |-> "", n |-> 0, entries |-> <<>>, count |-> 0, m |-> 0, error |-> ""]

\* Questions and answers logged: plain, with characters json.dumps escapes,
\* with a U+2028 inside
HistQuestions == { <<"a">>, <<"a", "\n", "\"", "\\">>, <<"a", LineSep, "b">> }
HistAnswers   == { <<>>, <<"b">> }

\* One call of log_entry (lines 30-51): the line is appended; an OSError is
\* caught and the entry is not written.
HistLogEntry ==
    /\ Len(hlogged) < MaxLogged
    /\ \E question \in HistQuestions, answer \in HistAnswers, writeOK \in BOOLEAN :
          LET entry == [question |-> question, answer |-> answer]
          IN  /\ hlast' = [NoHistCall EXCEPT !.op = "log_entry", !.m = Len(hlogged),
                                             !.error = IF writeOK THEN "" ELSE "OSError"]
              /\ IF writeOK
                 THEN /\ hfile' = {FileText(hfile) \o JsonDumps(entry) \o <<"\n">>}
                      /\ hlogged' = Append(hlogged, entry)
                 ELSE UNCHANGED <<hfile, hlogged>>
    /\ UNCHANGED <<retrieveVars, dedupVars, cacheVars, httpVars>>

\* One call of get_recent(n) (lines 54-64)
HistGetRecent ==
    /\ \E n \in 1..(MaxLogged + 1), readOK \in BOOLEAN :
          LET r == GetRecent(hfile, n, readOK)
          IN  hlast' = [NoHistCall EXCEPT !.op = "get_recent", !.n = n,
                                          !.m = Len(hlogged), !.entries = r.entries,
                                          !.error = r.error]
    /\ UNCHANGED <<hfile, hlogged>>
    /\ UNCHANGED <<retrieveVars, dedupVars, cacheVars, httpVars>>

\* One call of clear() (lines 67-75).  Nothing is caught here: an OSError of
\* the read leaves the file as it is and reaches the caller.
HistClear ==
    /\ IF hfile = {}
       THEN /\ hlast' = [NoHistCall EXCEPT !.op = "clear", !.m = Len(hlogged)]
            /\ UNCHANGED <<hfile, hlogged>>
       ELSE \E fileOK \in BOOLEAN :
              IF fileOK
              THEN /\ hlast' = [NoHistCall EXCEPT !.op = "clear", !.m = Len(hlogged),
                                                  !.count = ClearCount(hfile)]
                   /\ hfile' = {<<>>}
                   /\ hlogged' = <<>>
              ELSE /\ hlast' = [NoHistCall EXCEPT !.op = "clear", !.m = Len(hlogged),
                                                  !.error = "OSError"]
                   /\ UNCHANGED <<hfile, hlogged>>
    /\ UNCHANGED <<retrieveVars, dedupVars, cacheVars, httpVars>>

\* No history file yet
HistIdle ==
    /\ hfile = {}
    /\ hlogged = <<>>
    /\ hlast = NoHistCall

-----------------------------------------------------------------------------
(* Inputs *)

\* Documents as the index returns them: page_content and a metadata that is
\* a dict with an optional "source" (loader) and "start_index" (splitter),
\* or None.  Sources: both separators, a backslash only, no separator.
Doc1 == [page_content |-> <<"A">>,
         metadata     |-> {[source |-> <<"c", "\\", "d", "/", "x">>, start_index |-> 0]}]
Doc2 == [page_content |-> <<"B">>,
         metadata     |-> {[source |-> <<"e", "\\", "x">>]}]
Doc3 == [page_content |-> <<"C">>,
         metadata     |-> {[start_index |-> 7]}]
Doc4 == [page_content |-> <<"D">>,
         metadata     |-> {}]
Doc5 == [page_content |-> <<"E">>,
         metadata     |-> {[source |-> <<"z">>, start_index |-> 0]}]

\* Raw distances: negative, 0, 0.1, 0.99992, 1.5, 2.0, 3.0
RawResults ==
    { [doc |-> Doc1, raw_score |-> -200],
      [doc |-> Doc5, raw_score |-> 0],
      [doc |-> Doc2, raw_score |-> 100000],
      [doc |-> Doc1, raw_score |-> 999920],
      [doc |-> Doc4, raw_score |-> 1500000],
      [doc |-> Doc2, raw_score |-> 2000000],
      [doc |-> Doc3, raw_score |-> 3000000] }

\* Thresholds: 0.0, 0.5, 0.50004, 1.0
Thresholds == {0, 500000, 500040, ONE}

\* Contents of exactly SnippetMax characters, and of one more: the slice of
\* the longer one ends in a blank.
Content350 == [i \in 1..SnippetMax |-> "a"]
Content351 == [i \in 1..(SnippetMax + 1) |->
                  IF i = SnippetMax THEN " " ELSE IF i > SnippetMax THEN "b" ELSE "a"]

\* Chunks given to deduplicate_sources: two filenames, ties in score between
\* chunks that differ in content and start_index, contents with blanks at an
\* end, contents at and over the snippet length.
Chunk(fn, path, score, content, start) ==
    [content |-> content, filename |-> fn, source_path |-> path,
     similarity_score |-> score, start_index |-> start]

InputChunks ==
    { Chunk(<<"x">>, <<"d", "/", "x">>, 900000, Content351, {0}),
      Chunk(<<"x">>, <<"d", "/", "x">>, 950000, <<"B">>, {500}),
      Chunk(<<"x">>, <<"e", "\\", "x">>, 950000, <<"A">>, {}),
      Chunk(<<"x">>, <<"d", "/", "x">>, 900000, <<"B", " ">>, {500}),
      Chunk(<<"y">>, <<"y">>, 700000, Content350, {}),
      Chunk(<<"y">>, <<"y">>, 700000, <<"B">>, {0}),
      Chunk(<<"y">>, <<"y">>, 950000, <<" ", "C">>, {7}) }

SeqsUpTo(S, n) == UNION { [1..m -> S] : m \in 0..n }

\* No caller of the retrieval layer is active, nothing is cached.
CacheIdle(exists) ==
    /\ storeExists = exists
    /\ diskVersion = 0
    /\ cache = {}
    /\ loads = 0
    /\ loadsSinceClear = 0
    /\ clears = 0
    /\ reindexed = 0
    /\ tpc = [t \in Callers |-> "idle"]
    /\ tkind = [t \in Callers |-> ""]
    /\ ingests = 0
    /\ tvs = [t \in Callers |-> {}]
    /\ tstart = [t \in Callers |-> 0]
    /\ terror = [t \in Callers |-> ""]

RetrieveIdle(q, rk, k, thr) ==
    /\ query = q
    /\ ranking = rk
    /\ retrieval_k = k
    /\ threshold = thr
    /\ rpc = "ready"
    /\ raw = <<>>
    /\ sims = <<>>
    /\ chunks = <<>>
    /\ rerror = ""
    /\ searches = 0

DedupIdle(cs) ==
    /\ dchunks = cs
    /\ dpc = "ready"
    /\ citations = <<>>
    /\ dcalls = 0
    /\ cpc = "ready"
    /\ context = <<>>

NoAsk == [question |-> <<>>, called |-> FALSE, via |-> "", storeMissing |-> FALSE,
          error |-> "", loaded |-> FALSE, searched |-> FALSE, top_k |-> 0, k |-> 0]

HttpIdle ==
    /\ httpStatus = 0
    /\ lastAsk = NoAsk
    /\ qaChain = {}
    /\ history = <<>>

-----------------------------------------------------------------------------
(* Specification of one retrieve call on every input *)

InitRetrieve ==
    /\ \E q \in Queries, rk \in SeqsUpTo(RawResults, MaxResults),
          k \in 1..MaxK, thr \in Thresholds :
          RetrieveIdle(q, rk, k, thr)
    /\ \E exists \in BOOLEAN : CacheIdle(exists)
    /\ DedupIdle(<<>>)
    /\ HttpIdle
    /\ HistIdle

NextRetrieve == Retrieve

SpecRetrieve == InitRetrieve /\ [][NextRetrieve]_vars

-----------------------------------------------------------------------------
(* Claims about retrieve *)

\* C1: every chunk retrieve returns has similarity_score in [0.0, 1.0], for
\* every raw distance, negative ones included.
C1_ScoreInUnitInterval ==
    rpc = "returned" =>
        \A i \in DOMAIN chunks :
            chunks[i].similarity_score >= 0 /\ chunks[i].similarity_score <= ONE

\* C2 (as claimed): no chunk retrieve returns carries a stored (rounded)
\* similarity_score strictly below the threshold.
C2_StoredScoreNotBelowThreshold ==
    rpc = "returned" =>
        \A i \in DOMAIN chunks : ~(chunks[i].similarity_score < threshold)

\* C2 (amended): the stored score of a returned chunk is never below the
\* threshold rounded to 4 decimals, and is below the threshold itself by at
\* most 0.00005.
C2_StoredScoreNotBelowRoundedThreshold ==
    rpc = "returned" =>
        \A i \in DOMAIN chunks :
            /\ chunks[i].similarity_score >= Round4(threshold)
            /\ chunks[i].similarity_score + 50 >= threshold

C2_Witness ==
    /\ rpc = "returned"
    /\ \E i \in DOMAIN chunks : chunks[i].similarity_score < threshold
    /\ Len(chunks) < Len(raw)

\* The positions of raw whose similarity is at least thr, and the n-th of them.
C6_Kept(thr) == {i \in DOMAIN raw : sims[i] >= thr}
C6_Nth(K, n) == CHOOSE i \in K : Cardinality({j \in K : j <= i}) = n

\* C6: the chunks retrieve returns are exactly the index results whose
\* similarity is at least the threshold, in the index's order; at most k of
\* them; threshold 0.0 drops nothing; ascending raw distances give
\* non-increasing scores.
C6_FilterKeepsOrder ==
    rpc = "returned" =>
        LET K == C6_Kept(threshold)
        IN  /\ Len(chunks) = Cardinality(K)
            /\ \A n \in DOMAIN chunks :
                  LET i == C6_Nth(K, n)
                  IN  /\ chunks[n].content = raw[i].doc.page_content
                      /\ chunks[n].similarity_score = Round4(sims[i])
            /\ Len(chunks) <= retrieval_k
            /\ (threshold = 0 => Len(chunks) = Len(raw))
            /\ ((\A i, j \in DOMAIN raw : i < j => raw[i].raw_score <= raw[j].raw_score)
                  => \A m, n \in DOMAIN chunks :
                        m < n => chunks[m].similarity_score >= chunks[n].similarity_score)

C6_Witness ==
    /\ rpc = "returned"
    /\ Len(raw) = 3
    /\ Len(chunks) = 2
    /\ threshold > 0
    /\ chunks[1].similarity_score > chunks[2].similarity_score
    /\ chunks[1].content # chunks[2].content

\* C9: over raw distances >= 0 the similarity is non-increasing in the raw
\* distance, exactly 1.0 at raw distance 0 and exactly 0.0 from raw distance 2.
C9_SimilarityMonotone ==
    rpc = "returned" =>
        \A i \in DOMAIN raw :
            raw[i].raw_score >= 0 =>
                /\ (raw[i].raw_score = 0 => sims[i] = ONE)
                /\ (raw[i].raw_score >= 2 * ONE => sims[i] = 0)
                /\ \A j \in DOMAIN raw :
                      raw[j].raw_score >= raw[i].raw_score => sims[j] <= sims[i]

C9_Witness ==
    /\ rpc = "returned"
    /\ \E i, j, l \in DOMAIN raw :
          /\ raw[i].raw_score = 0
          /\ raw[j].raw_score > 0 /\ sims[j] > 0 /\ sims[j] < ONE
          /\ raw[l].raw_score > 2 * ONE

\* C8 (as claimed): retrieve called with an empty or whitespace-only query
\* fails with the invalid-input error and issues no search.  (A call that
\* fails because the index cannot be loaded is not held against the claim.)
C8_RetrieveRejectsBlankQuery ==
    (rpc # "ready" /\ Strip(query) = <<>>) =>
        /\ rpc = "raised"
        /\ rerror \in {"ValueError", "FileNotFoundError", "LoadError"}
        /\ searches = 0

\* C15: when the index is available and no result of the search clears the
\* threshold (or the search returns nothing), retrieve returns the empty
\* list and raises nothing, whatever the metadata of the filtered results
\* is, and build_context of that list is the no-context sentinel.
C15_NothingClearsThresholdIsEmpty ==
    (/\ rpc # "ready"
     /\ rerror \notin {"FileNotFoundError", "LoadError"}
     /\ \A i \in DOMAIN raw : Similarity(raw[i].raw_score) < threshold) =>
        /\ rpc = "returned"
        /\ rerror = ""
        /\ chunks = <<>>
        /\ BuildContext(chunks) = NoContext

C16_Separators == {"/", "\\"}

\* C16: for every chunk retrieve returns, source_path is the document's
\* source metadata and filename is what follows its last '/' or '\' (all of
\* it when it has neither); when the metadata is missing or has no source,
\* both are "unknown".
C16_FilenameIsLastSegment ==
    rpc = "returned" =>
        \A n \in DOMAIN chunks :
            LET md == raw[C6_Nth(C6_Kept(threshold), n)].doc.metadata
                c  == chunks[n]
            IN  IF md # {} /\ \E m \in md : "source" \in DOMAIN m
                THEN LET src == (CHOOSE m \in md : TRUE).source
                         p   == Len(src) - Len(c.filename)
                     IN  /\ c.source_path = src
                         /\ p >= 0
                         /\ c.filename = SubSeq(src, p + 1, Len(src))
                         /\ \A i \in DOMAIN c.filename :
                               c.filename[i] \notin C16_Separators
                         /\ p > 0 => src[p] \in C16_Separators
                ELSE /\ c.source_path = Str_unknown
                     /\ c.filename = Str_unknown

C16_Witness ==
    /\ rpc = "returned"
    /\ Len(raw) = 3
    /\ Len(chunks) = 3
    /\ \E i, j, k \in DOMAIN chunks :
          /\ raw[i].doc = Doc4 /\ chunks[i].filename = Str_unknown
          /\ raw[j].doc = Doc2 /\ chunks[j].filename = <<"x">>
                              /\ chunks[j].source_path = <<"e", "\\", "x">>
          /\ raw[k].doc = Doc5 /\ chunks[k].filename = <<"z">>

-----------------------------------------------------------------------------
(* Specification of one deduplicate_sources call on every input *)

InitDedup ==
    /\ \E cs \in SeqsUpTo(InputChunks, MaxChunks) : DedupIdle(cs)
    /\ RetrieveIdle(<<>>, <<>>, 1, 0)
    /\ CacheIdle(TRUE)
    /\ HttpIdle
    /\ HistIdle

NextDedup ==
    \/ Dedup
    \/ BuildCtx

SpecDedup == InitDedup /\ [][NextDedup]_vars

-----------------------------------------------------------------------------
(* Claims about deduplicate_sources *)

C5_MaxScore(filename) ==
    LET S == {dchunks[j].similarity_score :
                 j \in {k \in DOMAIN dchunks : dchunks[k].filename = filename}}
    IN  CHOOSE m \in S : \A x \in S : x <= m

\* C5: deduplicate_sources returns exactly one citation for every filename
\* of its input and none for any other, and a citation's similarity_score is
\* the maximum score among the input chunks of its filename.
C5_OneCitationPerFilenameWithMaxScore ==
    dpc = "done" =>
        /\ \A j \in DOMAIN dchunks :
              Cardinality({i \in DOMAIN citations :
                              citations[i].filename = dchunks[j].filename}) = 1
        /\ \A i \in DOMAIN citations :
              /\ \E j \in DOMAIN dchunks : dchunks[j].filename = citations[i].filename
              /\ citations[i].similarity_score = C5_MaxScore(citations[i].filename)

C5_Witness ==
    /\ dpc = "done"
    /\ Len(dchunks) = 4
    /\ Len(citations) = 2
    /\ \E j, k \in DOMAIN dchunks :
          /\ j < k
          /\ dchunks[j].filename = dchunks[k].filename
          /\ dchunks[j].similarity_score < dchunks[k].similarity_score

\* The first input position that holds the maximum score of its filename.
C10_Representative(filename) ==
    LET T == {j \in DOMAIN dchunks :
                 /\ dchunks[j].filename = filename
                 /\ dchunks[j].similarity_score = C5_MaxScore(filename)}
    IN  CHOOSE j \in T : \A k \in T : j <= k

\* C10: when several chunks of a filename share the maximum score, the
\* citation is made from the first of them in input order: its snippet and
\* its start_index both come from that chunk.
C10_TieKeepsFirst ==
    dpc = "done" =>
        \A i \in DOMAIN citations :
            LET r == dchunks[C10_Representative(citations[i].filename)]
            IN  /\ citations[i].snippet = Snippet(r.content)
                /\ citations[i].start_index = r.start_index

C10_Witness ==
    /\ dpc = "done"
    /\ \E j, k \in DOMAIN dchunks :
          /\ j < k
          /\ dchunks[j].filename = dchunks[k].filename
          /\ dchunks[j].similarity_score = dchunks[k].similarity_score
          /\ dchunks[j].similarity_score = C5_MaxScore(dchunks[j].filename)
          /\ Snippet(dchunks[j].content) # Snippet(dchunks[k].content)
          /\ dchunks[j].start_index # dchunks[k].start_index
          /\ \E i \in DOMAIN citations :
                /\ citations[i].filename = dchunks[j].filename
                /\ citations[i].similarity_score = dchunks[j].similarity_score

\* The first input position that holds a chunk of the filename.
C11_FirstOccurrence(filename) ==
    LET T == {j \in DOMAIN dchunks : dchunks[j].filename = filename}
    IN  CHOOSE j \in T : \A k \in T : j <= k

\* C11: the citations are ordered by the first occurrence of their filename
\* in the input, also when a later chunk of higher score has replaced the
\* representative of a filename seen before.
C11_FirstOccurrenceOrder ==
    dpc = "done" =>
        \A i, j \in DOMAIN citations :
            i < j => C11_FirstOccurrence(citations[i].filename)
                         < C11_FirstOccurrence(citations[j].filename)

C11_Witness ==
    /\ dpc = "done"
    /\ Len(citations) = 2
    /\ \E j, k, l \in DOMAIN dchunks :
          /\ j < k /\ k < l
          /\ dchunks[j].filename = citations[1].filename
          /\ dchunks[k].filename = citations[2].filename
          /\ dchunks[l].filename = citations[1].filename
          /\ dchunks[l].similarity_score > dchunks[j].similarity_score
          /\ citations[1].similarity_score = dchunks[l].similarity_score
          /\ citations[1].start_index = dchunks[l].start_index
          /\ citations[1].start_index # dchunks[j].start_index

\* Where the block of the j-th chunk starts in the joined string.
RECURSIVE C12_Start(_)
C12_Start(j) ==
    IF j = 1 THEN 1
    ELSE C12_Start(j - 1) + Len(SourcePrefix) + Len(dchunks[j - 1].filename)
             + Len(SourceSuffix) + Len(dchunks[j - 1].content) + Len(Separator)

C12_End(j) ==
    C12_Start(j) + Len(SourcePrefix) + Len(dchunks[j].filename)
        + Len(SourceSuffix) + Len(dchunks[j].content) - 1

\* C12: build_context of a non-empty list is one block
\* "[Source: <filename>]\n<content>" per input chunk, in input order, with
\* the separator "\n\n---\n\n" between consecutive blocks and nothing else:
\* no chunk is dropped, reordered, truncated or merged.
C12_OneBlockPerChunkInOrder ==
    (cpc = "done" /\ dchunks # <<>>) =>
        /\ Len(context) = C12_End(Len(dchunks))
        /\ \A j \in DOMAIN dchunks :
              /\ SubSeq(context, C12_Start(j), C12_End(j))
                    = SourcePrefix \o dchunks[j].filename \o SourceSuffix
                         \o dchunks[j].content
              /\ j < Len(dchunks) =>
                    SubSeq(context, C12_End(j) + 1, C12_End(j) + Len(Separator))
                       = Separator

C12_Witness ==
    /\ cpc = "done"
    /\ Len(dchunks) = 4
    /\ \E j, k \in DOMAIN dchunks :
          /\ j < k
          /\ dchunks[j].filename = dchunks[k].filename
          /\ dchunks[j].content # dchunks[k].content
          /\ dchunks[j].similarity_score > dchunks[k].similarity_score
    /\ \E j \in DOMAIN dchunks : Len(dchunks[j].content) > SnippetMax
    /\ Len(context) = C12_End(4)

\* C13: build_context of the empty list is the no-context sentinel; the
\* sentinel does not begin with "[Source: ", every result for a non-empty
\* list does, so the two never coincide.
C13_EmptyListGivesSentinel ==
    cpc = "done" =>
        /\ SubSeq(NoContext, 1, Len(SourcePrefix)) # SourcePrefix
        /\ dchunks = <<>> => context = NoContext
        /\ dchunks # <<>> =>
              /\ context # NoContext
              /\ SubSeq(context, 1, Len(SourcePrefix)) = SourcePrefix

C13_Witness ==
    /\ cpc = "done"
    /\ dchunks = <<>>
    /\ context = NoContext
    /\ Len(context) > Len(SourcePrefix)

\* C14 (as claimed): the snippet is the representative's content cut to 350
\* characters, with the ellipsis appended iff the content is longer; a
\* content of at most 350 characters is the snippet, unchanged.
C14_SnippetIsTruncatedContent ==
    dpc = "done" =>
        \A i \in DOMAIN citations :
            LET content == dchunks[C10_Representative(citations[i].filename)].content
            IN  IF Len(content) > SnippetMax
                THEN citations[i].snippet = SubSeq(content, 1, SnippetMax) \o Ellipsis
                ELSE citations[i].snippet = content

\* The part of s between its first and its last non-blank character.
C14_Trimmed(s) ==
    LET P == {i \in DOMAIN s : s[i] \notin Whitespace}
    IN  IF P = {} THEN <<>>
        ELSE SubSeq(s, CHOOSE i \in P : \A j \in 1..(i - 1) : s[j] \in Whitespace,
                       CHOOSE i \in P : \A j \in (i + 1)..Len(s) : s[j] \in Whitespace)

\* C14 (amended): the snippet is the first 350 characters of the
\* representative's content with the blanks at both ends removed, and the
\* ellipsis is appended iff the content is longer than 350 characters; a
\* content of at most 350 characters that neither begins nor ends with a
\* blank is the snippet, unchanged.
C14_SnippetIsTrimmedTruncatedContent ==
    dpc = "done" =>
        \A i \in DOMAIN citations :
            LET content == dchunks[C10_Representative(citations[i].filename)].content
                cut     == SubSeq(content, 1, Min(SnippetMax, Len(content)))
                snippet == citations[i].snippet
            IN  /\ Len(content) > SnippetMax => snippet = C14_Trimmed(cut) \o Ellipsis
                /\ Len(content) <= SnippetMax => snippet = C14_Trimmed(content)
                /\ (/\ Len(content) <= SnippetMax
                    /\ content # <<>>
                    /\ content[1] \notin Whitespace
                    /\ content[Len(content)] \notin Whitespace) => snippet = content

C14_Witness ==
    /\ dpc = "done"
    /\ \E i, j \in DOMAIN citations :
          /\ dchunks[C10_Representative(citations[i].filename)].content = Content351
          /\ citations[i].snippet = SubSeq(Content351, 1, SnippetMax - 1) \o Ellipsis
          /\ dchunks[C10_Representative(citations[j].filename)].content = <<" ", "C">>
          /\ citations[j].snippet = <<"C">>

-----------------------------------------------------------------------------
(* Specification of the retrieval layer under concurrent callers *)

Init ==
    /\ \E exists \in BOOLEAN : CacheIdle(exists)
    /\ RetrieveIdle(<<>>, <<>>, 1, 0)
    /\ DedupIdle(<<>>)
    /\ HttpIdle
    /\ HistIdle

Next ==
    \E t \in Callers :
        \/ StartRetrieve(t)
        \/ StartHealth(t)
        \/ Lookup(t)
        \/ Load(t)
        \/ Store(t)
        \/ Use(t)
        \/ Finish(t)
        \/ IngestCall(t)
        \/ Invalidate(t)

Spec == Init /\ [][Next]_vars

\* Callers of get_vector_store: retrieve calls and health checks
Getters == {t \in Callers : tkind[t] \in {"retrieve", "health"}}

\* C3: while no handle is cached and callers of get_vector_store race, the
\* index is loaded at most once and every caller receives the same handle.
C3_LoadedOnceSameHandle ==
    clears = 0 =>
        /\ loads <= 1
        /\ \A t1, t2 \in Getters :
              (tvs[t1] # {} /\ tvs[t2] # {}) => tvs[t1] = tvs[t2]

\* C4: a retrieval that starts after a re-indexing has completed (new index
\* persisted, cache invalidated) uses a handle loaded from that index or a
\* later one.
C4_RetrievalAfterReindexUsesNewIndex ==
    \A t \in Callers :
        (tkind[t] = "retrieve" /\ tpc[t] = "done" /\ tvs[t] # {}) =>
            \A h \in tvs[t] : h.version >= tstart[t]

-----------------------------------------------------------------------------
(* Specification of the retrieval layer in a sequential run: a call starts  *)
(* when no other call is under way.  The command-line ingestor is another   *)
(* process and runs at any time.                                            *)

\* No caller but t is inside a call
NoOtherCall(t) == \A u \in Callers \ {t} : tpc[u] \in {"idle", "done"}

NextSeq ==
    \/ \E t \in Callers :
          \/ NoOtherCall(t) /\ StartRetrieve(t)
          \/ NoOtherCall(t) /\ StartHealth(t)
          \/ NoOtherCall(t) /\ Lookup(t)
          \/ NoOtherCall(t) /\ Load(t)
          \/ NoOtherCall(t) /\ Store(t)
          \/ NoOtherCall(t) /\ Use(t)
          \/ NoOtherCall(t) /\ Finish(t)
          \/ NoOtherCall(t) /\ IngestCall(t)
          \/ NoOtherCall(t) /\ Invalidate(t)
    \/ CliIngest

SpecSeq == Init /\ [][NextSeq]_vars

\* C18: in a sequential run the index is loaded at most once between two
\* cache_clear calls; once a load has been cached, every later call of
\* get_vector_store (from retrieve or the health check) gets that handle
\* from the cache, until the cache is invalidated.
C18_SequentialLoadsOnce ==
    /\ loadsSinceClear <= 1
    /\ cache # {} => (loadsSinceClear = 1 /\ \A h \in cache : h.id = loads)
    /\ \A t \in Getters :
          /\ tpc[t] = "hit" => (cache # {} /\ tvs[t] = cache)
          /\ tpc[t] \in {"load", "store"} => cache = {}

C18_Witness ==
    /\ loads = 2
    /\ clears = 1
    /\ \E t, u \in Callers :
          /\ tkind[t] = "health" /\ tpc[t] = "hit"
          /\ tkind[u] = "retrieve" /\ tpc[u] = "done"
          /\ tvs[t] = tvs[u]
          /\ tvs[t] = {Handle(2, 1)}

\* C19: a call of get_vector_store that fails leaves nothing in the cache:
\* a step that raises leaves the cache as it was, FileNotFoundError is raised
\* only while the store path is absent, and a lookup on an empty cache always
\* runs the body, which loads once the path exists.
C19_FailedLoadIsNotCached ==
    [][\A t \in Callers :
          /\ (terror[t] = "" /\ terror'[t] # "") => cache' = cache
          /\ (terror[t] = "" /\ terror'[t] = "FileNotFoundError") => ~storeExists
          /\ (tpc[t] = "lookup" /\ cache = {} /\ tpc'[t] # "lookup")
                => tpc'[t] = "load"
          /\ (tpc[t] = "load" /\ storeExists /\ tpc'[t] = "store")
                => (loads' = loads + 1 /\ tvs'[t] = {Handle(loads', diskVersion)})
      ]_vars

C19_Witness ==
    /\ storeExists
    /\ clears = 0
    /\ ingests = 0
    /\ loads = 1
    /\ \E t, u \in Callers :
          /\ tkind[t] = "retrieve" /\ tpc[t] = "done"
          /\ terror[t] = "FileNotFoundError"
          /\ tkind[u] = "retrieve" /\ tpc[u] = "done"
          /\ terror[u] = ""
          /\ tvs[u] = {Handle(1, 1)}
          /\ cache = tvs[u]

-----------------------------------------------------------------------------
(* Specification of the HTTP edge: requests handled one at a time *)

InitAsk ==
    /\ \E exists \in BOOLEAN : CacheIdle(exists)
    /\ \E q \in Queries :
          RetrieveIdle(q, <<[doc |-> Doc1, raw_score |-> 100000]>>, MaxK, 0)
    /\ DedupIdle(<<>>)
    /\ HttpIdle
    /\ HistIdle

NextAsk ==
    \/ AskQuestion
    \/ AskDirect
    \/ Retrieve
    \/ IngestRequest

SpecAsk == InitAsk /\ [][NextAsk]_vars

\* C7: when the persisted index path does not exist, retrieve fails with
\* FileNotFoundError, and POST /ask answers 503.
C7_MissingIndexIs503 ==
    /\ (rpc # "ready" /\ ~storeExists) =>
          (rpc = "raised" /\ rerror = "FileNotFoundError")
    /\ (lastAsk.called /\ lastAsk.via = "http" /\ lastAsk.storeMissing
          /\ httpStatus # 422) => httpStatus = 503

\* C8 (amended): rag_pipeline.ask called with an empty or whitespace-only
\* question raises ValueError before the index is loaded or searched.
C8_AskRejectsBlankQuestion ==
    (lastAsk.called /\ lastAsk.via = "direct" /\ Strip(lastAsk.question) = <<>>) =>
        (lastAsk.error = "ValueError" /\ ~lastAsk.loaded /\ ~lastAsk.searched)

C8_Witness ==
    /\ lastAsk.called
    /\ lastAsk.via = "direct"
    /\ lastAsk.question = <<" ", "\t">>
    /\ ~lastAsk.storeMissing
    /\ lastAsk.error = "ValueError"

\* C20: between /ask requests settings.retrieval_k has its configured value,
\* whatever requests came before, with or without top_k, and however they
\* ended.
C20_TopKOverrideDoesNotLeak ==
    retrieval_k = MaxK

C20_Witness ==
    /\ lastAsk.called
    /\ lastAsk.via = "http"
    /\ lastAsk.top_k # 0
    /\ lastAsk.top_k # MaxK
    /\ lastAsk.k = lastAsk.top_k
    /\ httpStatus = 500
    /\ Len(history) > 1
    /\ retrieval_k = MaxK

-----------------------------------------------------------------------------
(* Specification of the history log: calls of history.py one at a time *)

InitHistory ==
    /\ CacheIdle(TRUE)
    /\ RetrieveIdle(<<>>, <<>>, 1, 0)
    /\ DedupIdle(<<>>)
    /\ HttpIdle
    /\ HistIdle

NextHistory ==
    \/ HistLogEntry
    \/ HistGetRecent
    \/ HistClear

SpecHistory == InitHistory /\ [][NextHistory]_vars

\* C21: get_recent(n), n >= 1, returns the last min(n, m) of the m entries
\* logged since the most recent clear, oldest first; clear returns the number
\* of entries it removed and leaves the log empty.  (A call in which the file
\* system fails is not held against the claim.)
C21_GetRecentAndClear ==
    /\ (hlast.op = "get_recent" /\ hlast.error # "OSError") =>
          LET m == Len(hlogged)
          IN  hlast.entries = SubSeq(hlogged, m - Min(hlast.n, m) + 1, m)
    /\ (hlast.op = "clear" /\ hlast.error # "OSError") =>
          /\ hlast.count = hlast.m
          /\ hlogged = <<>>
          /\ GetRecent(hfile, 1, TRUE).entries = <<>>

====
